---------------------------- MODULE Spec2Model ----------------------------
(***************************************************************************)
(* KiteSublime, lib/listeners.py: the editor event listener (edit          *)
(* classification and request triggering), the completions listener (the   *)
(* lock-protected buffer of received completions, filled by deferred       *)
(* request tasks and drained by on_query_completions) and the signatures   *)
(* listener (deferred request, popup of the first call).                   *)
(*                                                                         *)
(* Python values are modelled as follows.  Strings that the code formats   *)
(* or compares character-wise are sequences of one-character strings.      *)
(* Decoded JSON values are tagged records: JNull, JStr(s), JArr(seq) and   *)
(* JObj(function from keys to values).  Python's None is the string        *)
(* "None" where it stands next to strings and NoRegion where it stands     *)
(* next to dicts.                                                          *)
(***************************************************************************)
EXTENDS Integers, Sequences, FiniteSets, TLC

\* ------------------------------------------------------------------ bounds

\* Cursor offsets range over 0..MaxOffset.
MaxOffset == 2

\* Completions and signatures tasks deferred in one run of the model.
MaxTasks == 2

\* Event posts deferred and not yet sent.
MaxPending == 1

\* ------------------------------------------------------- program constants

\* _check_view_size: 1 << 20
MaxViewSize == 1048576

\* resp.status of a successful request
StatusOK == 200

\* ------------------------------------------------------------- JSON values

JNull == [t |-> "null"]
JStr(s) == [t |-> "str", s |-> s]
JArr(a) == [t |-> "arr", a |-> a]
JObj(o) == [t |-> "obj", o |-> o]

\* Completion items as the service may send them: with a hint, with a null
\* hint, with an empty hint, and without the hint key.
ItemHint == JObj([display |-> JStr(<<"f">>), hint |-> JStr(<<"i">>),
                  insert |-> JStr(<<"f", "(">>)])
ItemNullHint == JObj([display |-> JStr(<<"g">>), hint |-> JNull,
                      insert |-> JStr(<<"g">>)])
ItemEmptyHint == JObj([display |-> JStr(<<"h">>), hint |-> JStr(<<>>),
                       insert |-> JStr(<<"h", "(">>)])
ItemNoHint == JObj([display |-> JStr(<<"k">>), insert |-> JStr(<<"k">>)])


\* Completion lists a response may carry.
CompletionLists ==
    { <<>>,
      <<ItemHint, ItemNullHint, ItemEmptyHint>>,
      <<ItemHint, ItemNoHint>> }

\* Call entries of a signatures response (opaque to the client).
CallA == JObj([callee |-> JStr(<<"a">>)])
CallB == JObj([callee |-> JStr(<<"b">>)])
CallLists == { <<>>, <<CallB, CallA>> }

\* Response bodies: no bytes at all, bytes that are not JSON, and JSON
\* documents (an array, objects with and without the expected fields).
EmptyBody == [kind |-> "empty"]
GarbageBody == [kind |-> "garbage"]
JsonBody(j) == [kind |-> "json", doc |-> j]

Bodies ==
    { EmptyBody, GarbageBody, JsonBody(JArr(<<>>)), JsonBody(JObj(<<>>)),
      JsonBody(JObj([completions |-> JNull])),
      JsonBody(JObj([calls |-> JNull])) }
    \cup { JsonBody(JObj([completions |-> JArr(l)])) : l \in CompletionLists }
    \cup { JsonBody(JObj([calls |-> JArr(l)])) : l \in CallLists }

Statuses == { StatusOK, 500 }

\* ------------------------------------------------------------------- views

Offsets == 0 .. MaxOffset

\* A selection range of the view: r.a and r.b, in either order.
Region(a, b) == [a |-> a, b |-> b]
r_begin(r) == IF r.a <= r.b THEN r.a ELSE r.b
r_end(r) == IF r.a <= r.b THEN r.b ELSE r.a

NoFile == "None"
FileNames == { NoFile, "a.py", "b.py", "c.txt" }
PyFiles == { "a.py", "b.py" }

\* view.sel(): no range, one caret or range, or two carets.
Selections ==
    { <<>> }
    \cup { <<Region(o, o)>> : o \in Offsets }
    \cup { <<Region(0, MaxOffset)>>, <<Region(MaxOffset, 0)>> }
    \cup { <<Region(0, 0), Region(MaxOffset, MaxOffset)>> }

\* What the listeners read of a view: file_name(), size(), sel() and the
\* answer of match_selector(point, 'meta.function-call.python').
ViewSizes == { MaxViewSize, MaxViewSize + 1 }

Views ==
    [ file_name : FileNames,
      size : ViewSizes,
      sel : Selections,
      in_call : BOOLEAN ]

\* The views of the runs in which the request tasks and the completions
\* queries are followed to their end: a Python file and a buffer without a
\* path, of both sizes, with the caret at offset 0 or 1.
TypingViews ==
    { v \in Views :
         /\ v.file_name \in { NoFile, "a.py" }
         /\ v.sel \in { << Region(o, o) >> : o \in 0 .. 1 } }

\* The views on_query_completions is called with: it reads their file name
\* and size only.
QueryViews ==
    { v \in TypingViews : v.sel = << Region(0, 0) >> /\ ~v.in_call }

\* view.substr(sublime.Region(0, view.size())): the whole text, known here
\* by its length.
view_text(view) == [len |-> view.size]
EmptyText == [len |-> 0]

\* os.path.realpath of a file name.
realpath(f) == [real |-> f]

\* ------------------------------------------------------------ eligibility

EndsWithPy(f) == f \in PyFiles

_is_view_supported(view) == view.file_name # NoFile /\ EndsWithPy(view.file_name)

\* Variant of _check_view_size with twice the limit.
_check_view_size_doubled(view) == view.size <= 2 * MaxViewSize
_check_view_size(view) == view.size <= MaxViewSize

\* --------------------------------------------------------- edit classifier

NoRegion == [none |-> TRUE]

_view_region(view) ==
    IF Len(view.sel) # 1
    THEN NoRegion
    ELSE [file |-> view.file_name,
          begin |-> r_begin(view.sel[1]),
          end |-> r_end(view.sel[1])]

no_info == <<"None", "None">>

\* Variant of _edit_info whose first comparison is >= instead of >.
_edit_info_nonstrict(selection, edit) ==
    IF selection = NoRegion \/ edit = NoRegion
    THEN no_info
    ELSE IF selection.file # edit.file
    THEN no_info
    ELSE IF edit.end >= selection.end
         THEN <<"insertion", edit.end - selection.end>>
    ELSE IF edit.end < selection.end
         THEN <<"deletion", selection.end - edit.end>>
    ELSE no_info

_edit_info(selection, edit) ==
    IF selection = NoRegion \/ edit = NoRegion
    THEN no_info
    ELSE IF selection.file # edit.file
    THEN no_info
    ELSE IF edit.end > selection.end
         THEN <<"insertion", edit.end - selection.end>>
    ELSE IF edit.end < selection.end
         THEN <<"deletion", selection.end - edit.end>>
    ELSE no_info

\* ------------------------------------------------------------ request data

\* Variant of EditorEventListener._event_data without the size test of
\* lines 89-91.
event_data_unskipped(view, action) ==
    [ source |-> "sublime3",
      filename |-> realpath(view.file_name),
      text |-> view_text(view),
      action |-> action,
      selections |-> [ i \in DOMAIN view.sel |->
                         [start |-> view.sel[i].a, end |-> view.sel[i].b] ] ]

\* EditorEventListener._event_data
event_data(view, action) ==
    [ source |-> "sublime3",
      filename |-> realpath(view.file_name),
      text |-> IF _check_view_size(view) THEN view_text(view) ELSE EmptyText,
      action |-> IF _check_view_size(view) THEN action ELSE "skip",
      selections |-> [ i \in DOMAIN view.sel |->
                         [start |-> view.sel[i].a, end |-> view.sel[i].b] ] ]

\* EditorCompletionsListener._event_data and
\* EditorSignaturesListener._event_data
request_data(view, location) ==
    [ filename |-> realpath(view.file_name),
      editor |-> "sublime3",
      text |-> view_text(view),
      cursor_runes |-> location ]

\* ------------------------------------------------------- response decoding

\* json.loads(body.decode('utf-8')): the document, or a ValueError.
json_loads(body) ==
    IF body.kind = "json"
    THEN [ok |-> TRUE, v |-> body.doc]
    ELSE [ok |-> FALSE, err |-> "ValueError"]

\* d[key] on a decoded value: the member, a KeyError when an object lacks the
\* key, a TypeError when the value is no object.
subscript(d, key) ==
    IF d.t # "obj" THEN [ok |-> FALSE, err |-> "TypeError"]
    ELSE IF key \notin DOMAIN d.o THEN [ok |-> FALSE, err |-> "KeyError"]
    ELSE [ok |-> TRUE, v |-> d.o[key]]

\* Python truth of a decoded value: null, the empty string and the empty
\* list are false.
truthy(j) ==
    CASE j.t = "null" -> FALSE
      [] j.t = "str" -> j.s # <<>>
      [] j.t = "arr" -> j.a # <<>>
      [] OTHER -> TRUE

\* x or []
or_empty_list(j) == IF truthy(j) THEN j.a ELSE <<>>

\* The try block of the request tasks, lines 147-157 and 210-220, up to the
\* list it extracts: what the task does next and with which list.
\*   "nobody": the body is empty, nothing is done;
\*   "caught": a ValueError, caught and logged;
\*   "raised": another exception, which leaves the task;
\*   "list":   the list under `key`, or [] when it is null or empty.
extract_list(body, key) ==
    IF body.kind = "empty" THEN [outcome |-> "nobody"]
    ELSE LET doc == json_loads(body) IN
         IF ~doc.ok THEN [outcome |-> "caught"]
         ELSE LET member == subscript(doc.v, key) IN
              IF ~member.ok THEN [outcome |-> "raised", err |-> member.err]
              ELSE [outcome |-> "list", list |-> or_empty_list(member.v)]

\* ------------------------------------------------------------- decoration

\* The brand marker that ends every label.
BrandMarker == << "-", "K", "I", "T", "E", "-" >>

_brand_completion(symbol, hint) ==
    IF truthy(hint)
    THEN symbol \o << "\t" >> \o hint.s \o << " " >> \o BrandMarker
    ELSE symbol \o << "\t" >> \o BrandMarker

\* One element of the list comprehension of on_query_completions, lines
\* 126-129: the (label, insert) pair of item c, or the KeyError of a
\* missing key.
brand_item(c) ==
    LET display == subscript(c, "display")
        hint == subscript(c, "hint")
        insert == subscript(c, "insert")
    IN  IF ~display.ok THEN [ok |-> FALSE, err |-> display.err]
        ELSE IF ~hint.ok THEN [ok |-> FALSE, err |-> hint.err]
        ELSE IF ~insert.ok THEN [ok |-> FALSE, err |-> insert.err]
        ELSE [ok |-> TRUE,
              v |-> << _brand_completion(display.v.s, hint.v), insert.v.s >>]

\* The whole comprehension over the buffered list.
brand_all(items) ==
    IF \E i \in DOMAIN items : ~brand_item(items[i]).ok
    THEN [ok |-> FALSE,
          err |-> brand_item(items[CHOOSE i \in DOMAIN items :
                                      /\ ~brand_item(items[i]).ok
                                      /\ \A j \in 1 .. (i - 1) :
                                            brand_item(items[j]).ok]).err]
    ELSE [ok |-> TRUE, v |-> [ i \in DOMAIN items |-> brand_item(items[i]).v ]]

\* ------------------------------------------------------------------- state

VARIABLES
    _last_selection_region, \* EditorEventListener._last_selection_region
    _received_completions,  \* EditorCompletionsListener._received_completions
    _lock,                  \* EditorCompletionsListener._lock
    _template,              \* EditorSignaturesListener._template
    events,                 \* deferred posts to /clientapi/editor/event
    tasks,                  \* deferred completions and signatures tasks
    ui_pc,                  \* where the interactive thread is
    ret,                    \* what the last on_query_completions call returned
    logged,                 \* the buffer length that call logged at line 113
    handle_error,           \* the exception the last _handle call raised
    stored_by,              \* the task whose list the buffer holds (0: none)
    loads,                  \* calls of sublime.load_resource so far
    cl_selection, cl_edit, cl_result  \* a call of _edit_info and its result

vars == << _last_selection_region, _received_completions, _lock, _template,
           events, tasks, ui_pc, ret, logged, handle_error, stored_by, loads,
           cl_selection, cl_edit, cl_result >>

pipeline_vars == << _last_selection_region, events, handle_error >>
broker_vars == << _received_completions, _lock, ret, logged, stored_by >>
classifier_vars == << cl_selection, cl_edit, cl_result >>

\* The lock: free, or held by the interactive thread (0) or by task i.
Unlocked == [held |-> FALSE]
HeldBy(who) == [held |-> TRUE, who |-> who]
MainThread == 0

NoTemplate == "None"
LoadedTemplate == "function-signature.html"

\* No request has been sent (yet).
NoPayload == [none |-> TRUE]

\* No buffer length has been logged (yet).
NotLogged == -1

\* len(cls._received_completions) in the log lines 113-114 and 153-154.
logged_length(buffer) == Len(buffer)

\* A deferred request task: its arguments, its position, and what it has
\* done so far (requests sent, status received, list extracted, buffer
\* overwrites, auto_complete commands run, popups shown, how often a query
\* returned the list it stored, the buffer length it logged at line 153,
\* and the payload its request carried).
NewTask(kind, data) ==
    [ kind |-> kind, data |-> data, pc |-> "queued", posts |-> 0,
      status |-> 0, outcome |-> "none", list |-> <<>>, stores |-> 0,
      signals |-> 0, popups |-> <<>>, delivered |-> 0,
      logged |-> NotLogged, sent |-> NoPayload ]

NoReturn == [kind |-> "none"]
ReturnNone(line) == [kind |-> "None", line |-> line]
ReturnList(l) == [kind |-> "list", list |-> l]
ReturnRaised(e) == [kind |-> "raised", err |-> e]

Init ==
    /\ _last_selection_region = NoRegion
    /\ _received_completions = <<>>
    /\ _lock = Unlocked
    /\ _template = NoTemplate
    /\ events = <<>>
    /\ tasks = <<>>
    /\ ui_pc = "idle"
    /\ ret = NoReturn
    /\ logged = NotLogged
    /\ handle_error = "None"
    /\ stored_by = 0
    /\ loads = 0
    /\ cl_selection = NoRegion
    /\ cl_edit = NoRegion
    /\ cl_result = no_info

\* ---------------------------------------------------------- event pipeline

\* Variant of line 50 that accepts an insertion of any length.
completions_trigger_any_length(edit_type, num_chars) ==
    edit_type = "insertion" /\ num_chars >= 1

\* Line 50: the edit that asks for completions.
completions_trigger(edit_type, num_chars) ==
    edit_type = "insertion" /\ num_chars = 1

\* Variant of line 53 that takes every point to be inside a call.
match_selector_anywhere(view, point) == TRUE

\* Lines 53-54: view.match_selector(point, 'meta.function-call.python'),
\* the editor's answer for the point it is asked about.
match_selector(view, point) == view.in_call

\* EditorCompletionsListener.queue_completions: the deferred task.
queue_completions(view, location) ==
    << NewTask("completions", request_data(view, location)) >>

\* EditorSignaturesListener.queue_signatures: the deferred task.
queue_signatures(view, location) ==
    << NewTask("signatures", request_data(view, location)) >>

\* Variant of lines 43-44 that takes the snapshot on every notification.
last_selection_always(last, view, action) == _view_region(view)

\* Lines 43-44: the last-known selection after a notification.
last_selection(last, view, action) ==
    IF action = "selection" THEN _view_region(view) ELSE last

\* Variant of _handle that also clears the buffer of received completions.
_handle_clearing(view, action) ==
    /\ ui_pc = "idle"
    /\ IF ~_is_view_supported(view)
       THEN /\ handle_error' = "None"
            /\ UNCHANGED << _last_selection_region, events, tasks >>
       ELSE LET edit_region == _view_region(view)
                info == _edit_info(_last_selection_region, edit_region)
                triggers == action = "edit" /\ _check_view_size(view)
                completes == triggers /\ completions_trigger(info[1], info[2])
                raises == triggers /\ edit_region = NoRegion
                signs == /\ triggers /\ ~raises
                         /\ match_selector(view, edit_region.end)
                queued ==
                    (IF completes
                     THEN queue_completions(view, edit_region.end) ELSE <<>>)
                    \o (IF signs
                        THEN queue_signatures(view, edit_region.end) ELSE <<>>)
            IN  /\ Len(events) < MaxPending
                /\ Len(tasks) + Len(queued) <= MaxTasks
                /\ events' = Append(events, event_data(view, action))
                /\ _last_selection_region' =
                       last_selection(_last_selection_region, view, action)
                /\ tasks' = tasks \o queued
                /\ handle_error' = IF raises THEN "TypeError" ELSE "None"
    /\ _received_completions' = <<>>
    /\ stored_by' = 0
    /\ UNCHANGED << _lock, ret, logged, _template, ui_pc, loads >>
    /\ UNCHANGED classifier_vars

\* EditorEventListener._handle, for on_modified ('edit') and
\* on_selection_modified ('selection').  Subscripting an absent edit region
\* at line 53 raises a TypeError.
_handle(view, action) ==
    /\ ui_pc = "idle"
    /\ IF ~_is_view_supported(view)
       THEN /\ handle_error' = "None"
            /\ UNCHANGED << _last_selection_region, events, tasks >>
       ELSE LET edit_region == _view_region(view)
                info == _edit_info(_last_selection_region, edit_region)
                triggers == action = "edit" /\ _check_view_size(view)
                completes == triggers /\ completions_trigger(info[1], info[2])
                raises == triggers /\ edit_region = NoRegion
                signs == /\ triggers /\ ~raises
                         /\ match_selector(view, edit_region.end)
                queued ==
                    (IF completes
                     THEN queue_completions(view, edit_region.end) ELSE <<>>)
                    \o (IF signs
                        THEN queue_signatures(view, edit_region.end) ELSE <<>>)
            IN  /\ Len(events) < MaxPending
                /\ Len(tasks) + Len(queued) <= MaxTasks
                /\ events' = Append(events, event_data(view, action))
                /\ _last_selection_region' =
                       last_selection(_last_selection_region, view, action)
                /\ tasks' = tasks \o queued
                /\ handle_error' = IF raises THEN "TypeError" ELSE "None"
    /\ UNCHANGED << _template, ui_pc, loads >>
    /\ UNCHANGED broker_vars
    /\ UNCHANGED classifier_vars

on_modified(view) == _handle(view, "edit")

on_selection_modified(view) == _handle(view, "selection")

\* A deferred requests.kited_post to the event endpoint runs; its response
\* is ignored.
post_event(k) ==
    /\ k \in DOMAIN events
    /\ events' = [ j \in 1 .. (Len(events) - 1) |->
                     IF j < k THEN events[j] ELSE events[j + 1] ]
    /\ UNCHANGED << _last_selection_region, _template, tasks, ui_pc,
                    handle_error, loads >>
    /\ UNCHANGED broker_vars
    /\ UNCHANGED classifier_vars

\* -------------------------------------------------------- completions query

\* on_query_completions, lines 116-123: the early return that is taken,
\* by its line, or 0 when the call goes on.
query_refused(view, n_locations) ==
    IF ~_is_view_supported(view) THEN 117
    ELSE IF ~_check_view_size(view) THEN 120
    ELSE IF n_locations # 1 THEN 123
    ELSE 0

\* on_query_completions up to the `with cls._lock`: the log line (which
\* reads the length of the buffer without the lock), then it returns None
\* or goes on to take the lock.
query_enter(view, n_locations) ==
    /\ ui_pc = "idle"
    /\ IF query_refused(view, n_locations) # 0
       THEN ret' = ReturnNone(query_refused(view, n_locations))
            /\ ui_pc' = "return"
       ELSE ret' = NoReturn /\ ui_pc' = "acquire"
    /\ logged' = logged_length(_received_completions)
    /\ UNCHANGED << _received_completions, _lock, stored_by, tasks, _template,
                    loads >>
    /\ UNCHANGED pipeline_vars
    /\ UNCHANGED classifier_vars

\* `with cls._lock`, entered by the interactive thread.
query_acquire ==
    /\ ui_pc = "acquire"
    /\ _lock = Unlocked
    /\ _lock' = HeldBy(MainThread)
    /\ ui_pc' = "locked"
    /\ UNCHANGED << _received_completions, ret, logged, stored_by, tasks,
                    _template, loads >>
    /\ UNCHANGED pipeline_vars
    /\ UNCHANGED classifier_vars

\* Variant of line 130 that does not clear the buffer.
drained_keeping(buffer) == buffer

\* Line 130: what the buffer is after a drain.
drained(buffer) == <<>>

\* Lines 126-132, inside the lock: the comprehension, the clearing of the
\* buffer and the return, which releases the lock.  A KeyError of the
\* comprehension leaves the call (and the buffer as it was).
query_drain ==
    /\ ui_pc = "locked"
    /\ LET completions == brand_all(_received_completions) IN
       IF completions.ok
       THEN /\ ret' = ReturnList(completions.v)
            /\ _received_completions' = drained(_received_completions)
            /\ stored_by' = IF _received_completions' = <<>> THEN 0
                            ELSE stored_by
            /\ tasks' = [ i \in DOMAIN tasks |->
                            IF i = stored_by
                            THEN [tasks[i] EXCEPT !.delivered = @ + 1]
                            ELSE tasks[i] ]
       ELSE /\ ret' = ReturnRaised(completions.err)
            /\ UNCHANGED << _received_completions, stored_by, tasks >>
    /\ _lock' = Unlocked
    /\ ui_pc' = "return"
    /\ UNCHANGED << logged, _template, loads >>
    /\ UNCHANGED pipeline_vars
    /\ UNCHANGED classifier_vars

\* The editor takes what on_query_completions returned (or raised); the
\* interactive thread is free again.
query_return ==
    /\ ui_pc = "return"
    /\ ui_pc' = "idle"
    /\ ret' = NoReturn
    /\ logged' = NotLogged
    /\ UNCHANGED << _received_completions, _lock, stored_by, tasks, _template,
                    loads >>
    /\ UNCHANGED pipeline_vars
    /\ UNCHANGED classifier_vars

\* ------------------------------------------------------------ request tasks

\* The view a task was handed at dispatch, as it can be by the time the
\* task runs: the same file, with any size, selection and syntax.
LiveViews(task) ==
    { v \in TypingViews : realpath(v.file_name) = task.data.filename }

\* Variant of line 141 that builds the payload from the view as it is when
\* the task runs.
posted_data_late(task, now) == request_data(now, r_end(now.sel[1]))

\* Lines 141 and 204: the payload of the request is the `data` argument,
\* built by _event_data when the task was deferred (lines 136-137 and
\* 199-200), whatever the view is by now.
posted_data(task, now) == task.data

\* Variant of task_post that takes the lock before it sends the request.
task_post_locking(i) ==
    /\ i \in DOMAIN tasks
    /\ tasks[i].pc = "queued"
    /\ _lock = Unlocked
    /\ _lock' = HeldBy(i)
    /\ \E now \in LiveViews(tasks[i]) :
          tasks' = [tasks EXCEPT ![i].pc = "posting", ![i].posts = @ + 1,
                                 ![i].sent = posted_data(tasks[i], now)]
    /\ UNCHANGED << _received_completions, ret, logged, stored_by, _template,
                    ui_pc, loads >>
    /\ UNCHANGED pipeline_vars
    /\ UNCHANGED classifier_vars

\* A deferred task starts: requests.kited_post sends its request, while the
\* view may have changed since the task was deferred.
task_post(i) ==
    /\ i \in DOMAIN tasks
    /\ tasks[i].pc = "queued"
    /\ \E now \in LiveViews(tasks[i]) :
          tasks' = [tasks EXCEPT ![i].pc = "posting", ![i].posts = @ + 1,
                                 ![i].sent = posted_data(tasks[i], now)]
    /\ UNCHANGED << _template, ui_pc, loads >>
    /\ UNCHANGED pipeline_vars
    /\ UNCHANGED broker_vars
    /\ UNCHANGED classifier_vars

\* Variant of lines 144 and 207 without the status test.
status_accepted_always(status) == TRUE

\* Lines 144 and 207: a response is looked at only when its status is 200.
status_accepted(status) == status = StatusOK

\* _request_completions from the response to the point where it needs the
\* lock, lines 143-150.
completions_response(task, status, body) ==
    LET got == [task EXCEPT !.status = status] IN
    IF ~status_accepted(status)
    THEN [got EXCEPT !.pc = "done", !.outcome = "dropped"]
    ELSE LET ex == extract_list(body, "completions") IN
         CASE ex.outcome = "list" ->
                  [got EXCEPT !.pc = "acquire", !.list = ex.list]
           [] ex.outcome = "raised" ->
                  [got EXCEPT !.pc = "raised", !.outcome = ex.err]
           [] OTHER ->
                  [got EXCEPT !.pc = "done", !.outcome = ex.outcome]

\* Line 215: whether a popup is shown for the extracted calls.
shows_popup(calls) == Len(calls) # 0

\* _request_signatures from the response to the call of _render, lines
\* 206-216.
signatures_response(task, status, body) ==
    LET got == [task EXCEPT !.status = status] IN
    IF ~status_accepted(status)
    THEN [got EXCEPT !.pc = "done", !.outcome = "dropped"]
    ELSE LET ex == extract_list(body, "calls") IN
         CASE ex.outcome = "list" ->
                  IF shows_popup(ex.list)
                  THEN [got EXCEPT !.pc = "render", !.list = ex.list]
                  ELSE [got EXCEPT !.pc = "done", !.outcome = "nocalls",
                                   !.list = ex.list]
           [] ex.outcome = "raised" ->
                  [got EXCEPT !.pc = "raised", !.outcome = ex.err]
           [] OTHER ->
                  [got EXCEPT !.pc = "done", !.outcome = ex.outcome]

\* The response of the service arrives at a waiting task.
task_response(i, status, body) ==
    /\ i \in DOMAIN tasks
    /\ tasks[i].pc = "posting"
    /\ tasks' = [tasks EXCEPT ![i] =
                    IF tasks[i].kind = "completions"
                    THEN completions_response(tasks[i], status, body)
                    ELSE signatures_response(tasks[i], status, body)]
    /\ UNCHANGED << _template, ui_pc, loads >>
    /\ UNCHANGED pipeline_vars
    /\ UNCHANGED broker_vars
    /\ UNCHANGED classifier_vars

\* `with cls._lock`, entered by a completions task (line 151).
task_acquire(i) ==
    /\ i \in DOMAIN tasks
    /\ tasks[i].pc = "acquire"
    /\ _lock = Unlocked
    /\ _lock' = HeldBy(i)
    /\ tasks' = [tasks EXCEPT ![i].pc = "locked"]
    /\ UNCHANGED << _received_completions, ret, logged, stored_by, _template,
                    ui_pc, loads >>
    /\ UNCHANGED pipeline_vars
    /\ UNCHANGED classifier_vars

\* Variant of line 152 that appends to the buffer instead of replacing it.
overwritten_by_append(buffer, completions) == buffer \o completions

\* Line 152: what the buffer is after a task has stored its list.
overwritten(buffer, completions) == completions

\* Line 152 and the end of the with block: the buffer is overwritten and
\* the lock released.
task_store(i) ==
    /\ i \in DOMAIN tasks
    /\ tasks[i].pc = "locked"
    /\ _received_completions' =
           overwritten(_received_completions, tasks[i].list)
    /\ stored_by' = i
    /\ _lock' = Unlocked
    /\ tasks' = [tasks EXCEPT ![i].pc = "signal", ![i].stores = @ + 1]
    /\ UNCHANGED << ret, logged, _template, ui_pc, loads >>
    /\ UNCHANGED pipeline_vars
    /\ UNCHANGED classifier_vars

\* Lines 153-155: the log line (which reads the length of the buffer after
\* the lock was released) and _run_auto_complete.
task_signal(i) ==
    /\ i \in DOMAIN tasks
    /\ tasks[i].pc = "signal"
    /\ tasks' = [tasks EXCEPT ![i].pc = "done", ![i].outcome = "stored",
                              ![i].signals = @ + 1,
                              ![i].logged =
                                  logged_length(_received_completions)]
    /\ UNCHANGED << _template, ui_pc, loads >>
    /\ UNCHANGED pipeline_vars
    /\ UNCHANGED broker_vars
    /\ UNCHANGED classifier_vars

\* ---------------------------------------------------------------- signatures

\* cls._template.format(css=cls._css, call=call)
render_html(template, call) == [template |-> template, css |-> "", call |-> call]

\* _render, line 224: the template is loaded when there is none yet.
render_check(i) ==
    /\ i \in DOMAIN tasks
    /\ tasks[i].pc = "render"
    /\ tasks' = [tasks EXCEPT ![i].pc =
                    IF _template = NoTemplate THEN "load" ELSE "format"]
    /\ UNCHANGED << _template, ui_pc, loads >>
    /\ UNCHANGED pipeline_vars
    /\ UNCHANGED broker_vars
    /\ UNCHANGED classifier_vars

\* _render, line 225: sublime.load_resource and the assignment.
render_load(i) ==
    /\ i \in DOMAIN tasks
    /\ tasks[i].pc = "load"
    /\ _template' = LoadedTemplate
    /\ loads' = loads + 1
    /\ tasks' = [tasks EXCEPT ![i].pc = "format"]
    /\ UNCHANGED ui_pc
    /\ UNCHANGED pipeline_vars
    /\ UNCHANGED broker_vars
    /\ UNCHANGED classifier_vars

\* Variant of line 216 that takes the last call.
rendered_call_last(calls) == calls[Len(calls)]

\* Line 216: the call that is rendered.
rendered_call(calls) == calls[1]

\* Lines 216-218 and 226: the first call is formatted into the template and
\* shown.
show_popup(i) ==
    /\ i \in DOMAIN tasks
    /\ tasks[i].pc = "format"
    /\ tasks' = [tasks EXCEPT
                    ![i].pc = "done", ![i].outcome = "shown",
                    ![i].popups = Append(@, render_html(_template,
                                             rendered_call(tasks[i].list)))]
    /\ UNCHANGED << _template, ui_pc, loads >>
    /\ UNCHANGED pipeline_vars
    /\ UNCHANGED broker_vars
    /\ UNCHANGED classifier_vars

\* ----------------------------------------------------------- specification

Next ==
    \/ \E view \in TypingViews : on_modified(view)
    \/ \E view \in TypingViews : on_selection_modified(view)
    \/ \E k \in 1 .. MaxPending : post_event(k)
    \/ \E view \in QueryViews, n \in 1 .. 2 : query_enter(view, n)
    \/ query_acquire
    \/ query_drain
    \/ query_return
    \/ \E i \in 1 .. MaxTasks : task_post(i)
    \/ \E i \in 1 .. MaxTasks, status \in Statuses, body \in Bodies :
          task_response(i, status, body)
    \/ \E i \in 1 .. MaxTasks : task_acquire(i)
    \/ \E i \in 1 .. MaxTasks : task_store(i)
    \/ \E i \in 1 .. MaxTasks : task_signal(i)
    \/ \E i \in 1 .. MaxTasks : render_check(i)
    \/ \E i \in 1 .. MaxTasks : render_load(i)
    \/ \E i \in 1 .. MaxTasks : show_popup(i)

Spec == Init /\ [][Next]_vars

\* The event pipeline alone, over every view: the notifications and the
\* deferred event posts; the request tasks stay queued.
NextPipeline ==
    \/ \E view \in Views : on_modified(view)
    \/ \E view \in Views : on_selection_modified(view)
    \/ \E k \in 1 .. MaxPending : post_event(k)

SpecPipeline == Init /\ [][NextPipeline]_vars


\* _edit_info on its own: a call with any two snapshots (absent, or a range
\* of one of two files), and its return.
Snapshots ==
    { NoRegion }
    \cup { r \in [file : PyFiles, begin : Offsets, end : Offsets] :
             r.begin <= r.end }

Pending == << "pending", "pending" >>

InitClassify ==
    /\ _last_selection_region = NoRegion
    /\ _received_completions = <<>>
    /\ _lock = Unlocked
    /\ _template = NoTemplate
    /\ events = <<>>
    /\ tasks = <<>>
    /\ ui_pc = "idle"
    /\ ret = NoReturn
    /\ logged = NotLogged
    /\ handle_error = "None"
    /\ stored_by = 0
    /\ loads = 0
    /\ cl_selection \in Snapshots
    /\ cl_edit \in Snapshots
    /\ cl_result = Pending

classify ==
    /\ cl_result = Pending
    /\ cl_result' = _edit_info(cl_selection, cl_edit)
    /\ UNCHANGED << cl_selection, cl_edit, _template, tasks, ui_pc, loads >>
    /\ UNCHANGED pipeline_vars
    /\ UNCHANGED broker_vars

NextClassify == classify

SpecClassify == InitClassify /\ [][NextClassify]_vars

\* ------------------------------------------------------------------ helpers

IsCompletions(i) == tasks[i].kind = "completions"
IsSignatures(i) == tasks[i].kind = "signatures"

\* A completions task that got a status 200 and a parseable body, stored
\* its list and finished.
Stored(i) ==
    /\ IsCompletions(i)
    /\ tasks[i].pc = "done"
    /\ tasks[i].outcome = "stored"

StartsWith(s, p) == Len(p) <= Len(s) /\ SubSeq(s, 1, Len(p)) = p
EndsWith(s, p) ==
    Len(p) <= Len(s) /\ SubSeq(s, Len(s) - Len(p) + 1, Len(s)) = p
Contains(s, p) ==
    \E k \in 0 .. (Len(s) - Len(p)) : SubSeq(s, k + 1, k + Len(p)) = p

\* The interactive thread has just come back from on_query_completions.
QueryReturns == ui_pc # "return" /\ ui_pc' = "return"

\* ------------------------------------------------------------------- claims

\* C1 (last write wins): when two completions tasks have both stored the
\* list of a status-200, parseable response and finished, and no query has
\* drained the buffer since the last store, the buffer is exactly the list
\* of the task that stored last: not the other task's list, not a merge.
C1_LastWriteWins ==
    \A i \in DOMAIN tasks : \A j \in DOMAIN tasks :
        (i # j /\ Stored(i) /\ Stored(j) /\ stored_by # 0)
            => _received_completions = tasks[stored_by].list

\* C1 witness: both tasks stored different lists, the task dispatched
\* first stored last, and the buffer holds its list.
C1_Witness ==
    /\ Len(tasks) = 2
    /\ Stored(1) /\ Stored(2)
    /\ tasks[1].list # tasks[2].list
    /\ tasks[2].list # <<>>
    /\ stored_by = 1
    /\ _received_completions = tasks[1].list

C3_AtMostOnce ==
    \A i \in DOMAIN tasks : tasks[i].delivered <= 1

\* C3 witness: a stored list has been returned once, and a later query has
\* returned the empty list.
C3_Witness ==
    /\ ui_pc = "return"
    /\ ret = ReturnList(<<>>)
    /\ stored_by = 0
    /\ \E i \in DOMAIN tasks : tasks[i].delivered = 1 /\ tasks[i].list # <<>>

\* The tasks of one kind that a step has added to the deferred tasks.
Dispatched(kind) ==
    { k \in (Len(tasks) + 1) .. Len(tasks') : tasks'[k].kind = kind }

\* The event that a step has deferred, if any, and the views that a
\* notification deferring event e can have been about: those with the file
\* name and the selection of its payload.
DeferredEvent ==
    IF Len(events') = Len(events) + 1 THEN { events'[Len(events')] } ELSE {}

ViewsOf(e) ==
    [ file_name : { e.filename.real },
      size : ViewSizes,
      sel : { [ i \in DOMAIN e.selections |->
                  Region(e.selections[i].start, e.selections[i].end) ] },
      in_call : BOOLEAN ]

\* C4 (completion trigger policy): an edit notification dispatches a
\* completions request if and only if the document has a path, is a Python
\* file of at most 1 MiB, and the current snapshot classified against the
\* last-known selection snapshot is an insertion of exactly one character;
\* it then dispatches exactly one.  A step that defers no event (a
\* notification on an unsupported document among them) dispatches none.
C4_CompletionTrigger ==
    [][/\ DeferredEvent = {} => Dispatched("completions") = {}
       /\ \A e \in DeferredEvent : \A view \in ViewsOf(e) :
             on_modified(view) =>
                 LET eligible == /\ view.file_name # NoFile
                                 /\ view.file_name \in PyFiles
                                 /\ view.size <= MaxViewSize
                     info == _edit_info(_last_selection_region,
                                        _view_region(view))
                     single == info[1] = "insertion" /\ info[2] = 1
                 IN  /\ Dispatched("completions") # {}
                         <=> (eligible /\ single)
                     /\ Cardinality(Dispatched("completions")) <= 1
    ]_vars

\* C4 witness: a completions task was dispatched for the offset one past
\* the end of the last-known selection of the same file.
C4_Witness ==
    /\ _last_selection_region # NoRegion
    /\ \E i \in DOMAIN tasks :
          /\ IsCompletions(i)
          /\ tasks[i].data.filename = realpath(_last_selection_region.file)
          /\ tasks[i].data.cursor_runes = _last_selection_region.end + 1

\* C5 (the classifier against its reference): _edit_info returns for every
\* pair of snapshots; the result is 'none' when a snapshot is absent or the
\* files differ; otherwise it is an insertion of current.end - previous.end
\* iff current.end > previous.end, a deletion of previous.end - current.end
\* iff current.end < previous.end, and 'none' iff the ends are equal; an
\* insertion or deletion has magnitude at least 1, and the begin offsets
\* do not matter.
C5_ClassifyReference ==
    cl_result # Pending =>
        LET previous == cl_selection
            current == cl_edit
            kind == cl_result[1]
        IN  /\ kind \in { "insertion", "deletion", "None" }
            /\ kind = "None" => cl_result = << "None", "None" >>
            /\ IF previous = NoRegion \/ current = NoRegion
               THEN kind = "None"
               ELSE IF previous.file # current.file
               THEN kind = "None"
               ELSE /\ kind = "insertion" <=> current.end > previous.end
                    /\ kind = "deletion" <=> current.end < previous.end
                    /\ kind = "None" <=> current.end = previous.end
                    /\ kind = "insertion" =>
                          /\ cl_result[2] = current.end - previous.end
                          /\ cl_result[2] >= 1
                    /\ kind = "deletion" =>
                          /\ cl_result[2] = previous.end - current.end
                          /\ cl_result[2] >= 1
                    /\ \A b1 \in 0 .. previous.end, b2 \in 0 .. current.end :
                          _edit_info([previous EXCEPT !.begin = b1],
                                     [current EXCEPT !.begin = b2])
                              = cl_result

\* C5 witness: two snapshots of one file with different begin offsets,
\* classified as an insertion of two characters.
C5_Witness ==
    /\ cl_result = << "insertion", 2 >>
    /\ cl_selection # NoRegion /\ cl_edit # NoRegion
    /\ cl_selection.file = cl_edit.file
    /\ cl_selection.begin # cl_edit.begin

\* C6 (a non-success status is dropped): a completions task that received
\* a status other than 200 has finished without overwriting the buffer,
\* without running auto_complete and without a second request.
C6_NonSuccessDropped ==
    \A i \in DOMAIN tasks :
        (IsCompletions(i) /\ tasks[i].status \notin { 0, StatusOK }) =>
            /\ tasks[i].pc = "done"
            /\ tasks[i].outcome = "dropped"
            /\ tasks[i].stores = 0
            /\ tasks[i].signals = 0
            /\ tasks[i].posts = 1
            /\ stored_by # i

\* C6 witness: a task got a status 500 and is done while the buffer still
\* holds the list another task stored.
C6_Witness ==
    \E i \in DOMAIN tasks :
        /\ IsCompletions(i)
        /\ tasks[i].status = 500
        /\ tasks[i].pc = "done"
        /\ stored_by \notin { 0, i }
        /\ _received_completions # <<>>
        /\ _received_completions = tasks[stored_by].list

\* C7 (a malformed response is contained): a completions task that got a
\* status 200 ends normally whatever the body is: no exception leaves
\* _request_completions, and a task that extracted no list neither stores
\* nor signals.
C7_MalformedContained ==
    \A i \in DOMAIN tasks :
        (IsCompletions(i) /\ tasks[i].status = StatusOK) =>
            /\ tasks[i].pc # "raised"
            /\ tasks[i].outcome \in { "nobody", "caught" } =>
                  tasks[i].stores = 0 /\ tasks[i].signals = 0

\* C7 failing run: status 200 with the body `[]` or `{}`; the TypeError or
\* KeyError of resp_data['completions'] is no ValueError and leaves the
\* task.

\* A document without a path, or of more than 1 MiB.
Ineligible(view) == view.file_name = NoFile \/ view.size > MaxViewSize

\* C8 (eligibility gate): a notification about a document without a path
\* or larger than 1 MiB dispatches no completions and no signatures
\* request (a notification that defers no event dispatches nothing at
\* all), and on_query_completions for such a document returns None.
C8_EligibilityGate ==
    [][/\ DeferredEvent = {} => Len(tasks') <= Len(tasks)
       /\ \A e \in DeferredEvent : \A view \in ViewsOf(e) :
             ( /\ Ineligible(view)
               /\ on_modified(view) \/ on_selection_modified(view) )
                 => tasks' = tasks
       /\ (ui_pc = "idle" /\ ui_pc' # "idle") =>
             \A view \in QueryViews, n \in 1 .. 2 :
                 (Ineligible(view) /\ query_enter(view, n))
                     => ui_pc' = "return" /\ ret'.kind = "None"
    ]_vars

\* C8 witness: the event of a notification about an oversized document is
\* pending, no request was dispatched for it, and a query for an
\* unsupported or oversized document has returned None although the
\* buffer holds completions.
C8_Witness ==
    /\ ui_pc = "return"
    /\ ret.kind = "None"
    /\ ret.line \in { 117, 120 }
    /\ _received_completions # <<>>
    /\ Len(events) = 1
    /\ events[1].action = "skip"
    /\ Len(tasks) < MaxTasks

\* C9 (signature popup rule): a signatures task shows at most one popup;
\* once it has ended it has shown one if and only if the status was 200
\* and the parsed 'calls' list was non-empty; the popup is rendered from
\* the first entry of the list.
C9_PopupRule ==
    \A i \in DOMAIN tasks :
        IsSignatures(i) =>
            /\ Len(tasks[i].popups) <= 1
            /\ tasks[i].pc \in { "done", "raised" } =>
                  ( Len(tasks[i].popups) = 1
                      <=> ( /\ tasks[i].status = StatusOK
                            /\ tasks[i].outcome \notin
                                  { "nobody", "caught", "KeyError",
                                    "TypeError" }
                            /\ Len(tasks[i].list) > 0 ) )
            /\ tasks[i].popups # <<>> =>
                  tasks[i].popups[1].call = tasks[i].list[1]

\* C9 witness: a task got two calls and showed one popup, of the first.
C9_Witness ==
    \E i \in DOMAIN tasks :
        /\ IsSignatures(i)
        /\ tasks[i].pc = "done"
        /\ Len(tasks[i].list) = 2
        /\ Len(tasks[i].popups) = 1
        /\ tasks[i].popups[1].call = CallB
        /\ \E j \in DOMAIN tasks :
              /\ IsSignatures(j) /\ tasks[j].pc = "done"
              /\ tasks[j].status = StatusOK /\ tasks[j].outcome = "nocalls"
              /\ tasks[j].popups = <<>>

\* The hint of a decoded item, when it has one that is a non-empty string.
HasHint(c) ==
    "hint" \in DOMAIN c.o /\ c.o.hint.t = "str" /\ c.o.hint.s # <<>>

\* C10 (decoration preserves insertText): a query that reaches the buffer
\* returns, for every buffered item, with or without a hint, one pair at
\* the same position whose second member is the item's 'insert' and whose
\* label starts with its 'display', contains its hint if it has one, and
\* ends with the brand marker; it does not fail on an item without hint.
C10_BrandPreservesInsert ==
    [][(ui_pc = "locked" /\ QueryReturns) =>
          /\ ret'.kind = "list"
          /\ Len(ret'.list) = Len(_received_completions)
          /\ \A k \in DOMAIN _received_completions :
                LET c == _received_completions[k]
                    label == ret'.list[k][1]
                IN  /\ ret'.list[k][2] = c.o.insert.s
                    /\ StartsWith(label, c.o.display.s)
                    /\ HasHint(c) => Contains(label, c.o.hint.s)
                    /\ EndsWith(label, BrandMarker)
    ]_vars

\* C10 failing run: the buffer holds an item without the 'hint' key;
\* c['hint'] at line 127 raises a KeyError out of on_query_completions.

\* The two kinds of notification.
Actions == { "edit", "selection" }

\* What C11 requires of the step that handles a notification about `view`.
EventForwarded(view, action) ==
    IF view.file_name # NoFile /\ view.file_name \in PyFiles
    THEN /\ Len(events') = Len(events) + 1
         /\ SubSeq(events', 1, Len(events)) = events
         /\ LET e == events'[Len(events')] IN
            /\ e.filename = realpath(view.file_name)
            /\ IF view.size > MaxViewSize
               THEN e.action = "skip" /\ e.text = EmptyText
               ELSE e.action = action /\ e.text = view_text(view)
    ELSE events' = events /\ tasks' = tasks

\* C11 (activity event forwarding): in no state can an edit or
\* selection-change notification be handled otherwise than like this: about
\* a document with a path ending in .py, of any size, it defers exactly one
\* event, which carries 'skip' and the empty text when the document is
\* larger than 1 MiB, and the kind of the notification and the whole text
\* otherwise; about an unsupported document it defers nothing.
C11_EventForwarding ==
    \A view \in Views, action \in Actions :
        ~ENABLED (_handle(view, action) /\ ~EventForwarded(view, action))

\* C11 witness: the event of a notification about a Python file of more
\* than 1 MiB is pending, with 'skip' and no text, after the handler raised
\* nothing and dispatched no request.
C11_Witness ==
    /\ Len(events) = 1
    /\ events[1].filename = realpath("b.py")
    /\ events[1].action = "skip"
    /\ events[1].text = EmptyText
    /\ events[1].selections # <<>>
    /\ tasks = <<>>
    /\ handle_error = "None"

\* A supported document of at most 1 MiB whose current snapshot is absent:
\* it has no selection range, or more than one.
AbsentSnapshot(view) ==
    /\ view.file_name # NoFile /\ view.file_name \in PyFiles
    /\ view.size <= MaxViewSize
    /\ Len(view.sel) # 1

\* C12 (an absent current snapshot is harmless): in no state can an edit
\* notification about a supported document of at most 1 MiB without
\* exactly one selection range end with an exception on the interactive
\* thread or dispatch a completions or signatures request.
C12_AbsentSnapshotHarmless ==
    \A view \in Views :
        AbsentSnapshot(view) =>
            ~ENABLED ( /\ on_modified(view)
                       /\ ~(handle_error' = "None" /\ tasks' = tasks) )

\* C12 failing run: on_modified of a.py with no selection range (or two);
\* _view_region returns None and edit_region['end'], evaluated at line 53
\* as an argument of match_selector, raises a TypeError out of on_modified.

\* Task i has been deferred or is inside requests.kited_post.
InRequest(i) == tasks[i].pc \in { "queued", "posting" }

\* C13 (the lock is never held across a network call): a task that waits
\* for its request or performs it does not hold the lock; a task holds the
\* lock only as a completions task that has received a status-200 response
\* and is about to overwrite the buffer, and the interactive thread only
\* inside the drain of on_query_completions; so whoever holds the lock is
\* not inside a request.
C13_NoLockAcrossRequest ==
    /\ \A i \in DOMAIN tasks : InRequest(i) => _lock # HeldBy(i)
    /\ _lock.held =>
          IF _lock.who = MainThread
          THEN ui_pc = "locked"
          ELSE /\ _lock.who \in DOMAIN tasks
               /\ IsCompletions(_lock.who)
               /\ tasks[_lock.who].pc = "locked"
               /\ tasks[_lock.who].posts = 1
               /\ tasks[_lock.who].status = StatusOK
    /\ ui_pc = "locked" => _lock = HeldBy(MainThread)

\* C13 witness: one task is inside its request while another holds the
\* lock for its overwrite and the interactive thread waits for the lock.
C13_Witness ==
    \E i \in DOMAIN tasks : \E j \in DOMAIN tasks :
        /\ i # j
        /\ IsCompletions(i) /\ tasks[i].pc = "posting"
        /\ _lock = HeldBy(j) /\ tasks[j].pc = "locked"
        /\ ui_pc = "acquire"

\* The step is an access of thread `who` (the interactive thread, or task
\* `who`) to the buffer: for the interactive thread the log line at the
\* start of on_query_completions (a read) and the drain (a read and a
\* write); for a task the overwrite (a write) and the log line after it (a
\* read).
BufferAccessBy(who) ==
    IF who = MainThread
    THEN \/ ui_pc = "idle" /\ ui_pc' # "idle"
         \/ ui_pc = "locked" /\ ui_pc' = "return"
    ELSE /\ who \in DOMAIN tasks
         /\ \/ tasks[who].pc = "locked" /\ tasks'[who].pc = "signal"
            \/ tasks[who].pc = "signal" /\ tasks'[who].pc = "done"

\* C14 (all buffer accesses are under the lock): every step that reads or
\* writes the buffer is taken by a thread that holds the lock, so that no
\* thread reads the buffer while another one is inside the overwrite or
\* the drain.
C14_AccessesLocked ==
    [][\A who \in 0 .. MaxTasks :
          BufferAccessBy(who) => _lock = HeldBy(who)]_vars

\* C14 failing run: a task holds the lock for its overwrite while
\* on_query_completions starts and logs len(cls._received_completions) at
\* lines 113-114; likewise a task logs the length at lines 153-154 after it
\* has left its with block, while the interactive thread drains or another
\* task overwrites.

\* Completions task i has ended after a response with status 200 whose
\* body was not empty and was decoded by json.loads.
EndedParseable(i) ==
    /\ IsCompletions(i)
    /\ tasks[i].pc \in { "done", "raised" }
    /\ tasks[i].status = StatusOK
    /\ tasks[i].outcome \notin { "nobody", "caught" }

\* C15 (store happens before signal): a completions task that got a status
\* 200 and a parseable body has, when it ends, run auto_complete exactly
\* once; a task never runs it more than once, runs it only after its
\* overwrite of the buffer and without holding the lock, and a task that
\* did not store (status other than 200, empty body, parse failure) has
\* not run it.
C15_StoreBeforeSignal ==
    \A i \in DOMAIN tasks :
        IsCompletions(i) =>
            /\ tasks[i].signals <= 1
            /\ tasks[i].signals = 1 =>
                  tasks[i].stores = 1 /\ _lock # HeldBy(i)
            /\ tasks[i].stores = 0 => tasks[i].signals = 0
            /\ EndedParseable(i) =>
                  tasks[i].stores = 1 /\ tasks[i].signals = 1

\* C15 failing run: a response with status 200 and the body `{}` or `[]`
\* is decoded, but resp_data['completions'] raises before the overwrite:
\* the task ends without a signal.

\* What C16 requires of the step that handles an edit notification about
\* `view`, whose current snapshot is present.
SignaturesDispatched(view) ==
    LET wanted == /\ view.file_name # NoFile /\ view.file_name \in PyFiles
                  /\ view.size <= MaxViewSize
                  /\ view.in_call
    IN  /\ Dispatched("signatures") # {} <=> wanted
        /\ Cardinality(Dispatched("signatures")) <= 1
        /\ \A k \in Dispatched("signatures") :
              tasks'[k].data.cursor_runes = r_end(view.sel[1])

\* C16 (signature trigger policy): in no state can an edit notification
\* about a document with exactly one selection range be handled otherwise
\* than like this: one signatures request, for the end of the range, is
\* dispatched if and only if the document is supported, of at most 1 MiB,
\* and the range end is inside a function call; whatever the last-known
\* selection is, that is, whatever the edit is classified as.
C16_SignatureTrigger ==
    \A view \in Views :
        Len(view.sel) = 1 =>
            ~ENABLED (on_modified(view) /\ ~SignaturesDispatched(view))

\* C16 witness: the only requests dispatched are two signatures requests,
\* the first for an offset before the end of the last-known selection of
\* the same file (a deletion), the second for that end (no classification).
C16_Witness ==
    /\ Len(tasks) = 2
    /\ _last_selection_region # NoRegion
    /\ \A i \in DOMAIN tasks :
          /\ IsSignatures(i)
          /\ tasks[i].data.filename = realpath(_last_selection_region.file)
    /\ tasks[1].data.cursor_runes < _last_selection_region.end
    /\ tasks[2].data.cursor_runes = _last_selection_region.end

\* C17 (the template is loaded once): whatever the signature tasks do, one
\* after the other or at the same time, sublime.load_resource is called at
\* most once, and every popup is rendered from the loaded template.
C17_TemplateLoadedOnce ==
    /\ loads <= 1
    /\ \A i \in DOMAIN tasks : \A k \in DOMAIN tasks[i].popups :
          tasks[i].popups[k].template = LoadedTemplate

\* C17 failing run: two signatures tasks with non-empty 'calls' both
\* evaluate `cls._template is None` at line 224 before either has assigned
\* the template at line 225; both call sublime.load_resource.

\* The current snapshot of a view as C18 describes it: absent unless the
\* view has exactly one selection range.
CurrentSnapshot(view) ==
    IF Len(view.sel) = 1
    THEN [file |-> view.file_name,
          begin |-> IF view.sel[1].a <= view.sel[1].b
                    THEN view.sel[1].a ELSE view.sel[1].b,
          end |-> IF view.sel[1].a <= view.sel[1].b
                  THEN view.sel[1].b ELSE view.sel[1].a]
    ELSE NoRegion

\* C18 (update rule of the last-known selection): in no state can an edit
\* notification change the last-known selection snapshot, nor can a
\* selection-change notification do anything else with it than overwrite
\* it with the current snapshot (possibly absent) when the document is
\* supported, whatever its size, and leave it alone when it is not; and no
\* other step changes it.  So the second of two edits with no selection
\* change between them is classified against the same snapshot as the
\* first.
C18_LastSelectionRule ==
    /\ [](\A view \in Views :
            /\ ~ENABLED ( /\ on_modified(view)
                          /\ _last_selection_region' # _last_selection_region )
            /\ ~ENABLED ( /\ on_selection_modified(view)
                          /\ _last_selection_region' #
                                IF view.file_name \in PyFiles
                                THEN CurrentSnapshot(view)
                                ELSE _last_selection_region ))
    /\ [][_last_selection_region' # _last_selection_region =>
             /\ Len(events') = Len(events) + 1
             /\ events'[Len(events')].action \in { "selection", "skip" }
             /\ tasks' = tasks]_vars

\* C18 witness: after the last-known selection ended at offset 0, an edit
\* with the caret at 1 dispatched a completions request, and a second edit
\* of the same file with the caret at 2, whose event is still pending,
\* dispatched none: it was classified against the same snapshot, as an
\* insertion of two characters.
C18_Witness ==
    /\ _last_selection_region # NoRegion
    /\ _last_selection_region.end = 0
    /\ Len(tasks) = 1
    /\ IsCompletions(1)
    /\ tasks[1].data.cursor_runes = 1
    /\ tasks[1].data.filename = realpath(_last_selection_region.file)
    /\ Len(events) = 1
    /\ events[1].action = "edit"
    /\ events[1].filename = tasks[1].data.filename
    /\ events[1].selections = << [start |-> 2, end |-> 2] >>

\* The step is the overwrite of completions task i, after a response with
\* status 200 from which it extracted the list it stores.
OverwriteBy(i) ==
    /\ IsCompletions(i)
    /\ tasks[i].pc = "locked" /\ tasks'[i].pc = "signal"
    /\ tasks[i].status = StatusOK
    /\ _received_completions' = tasks[i].list

\* The step is the drain of a call of on_query_completions.
DrainByQuery ==
    /\ ui_pc = "locked" /\ ui_pc' = "return"
    /\ _received_completions' = <<>>

\* C19 (notifications leave the buffer alone): in no state can an edit or
\* selection-change notification, whatever the edit is classified as,
\* change the buffer of received completions; the buffer changes only by
\* the overwrite of a task with a successful response or by the drain of a
\* query.
C19_NotificationsKeepBuffer ==
    /\ [](\A view \in TypingViews, action \in Actions :
            ~ENABLED ( /\ _handle(view, action)
                       /\ _received_completions' # _received_completions ))
    /\ [][_received_completions' # _received_completions =>
             \/ \E i \in DOMAIN tasks : OverwriteBy(i)
             \/ DrainByQuery]_vars

\* C19 witness: the buffer holds the list a finished task stored, while
\* the event of an edit notification classified as a deletion (the caret
\* at 0, before the end of the last-known selection) is pending.
C19_Witness ==
    /\ _received_completions # <<>>
    /\ stored_by # 0
    /\ Stored(stored_by)
    /\ _received_completions = tasks[stored_by].list
    /\ _last_selection_region # NoRegion
    /\ _last_selection_region.end = 1
    /\ Len(events) = 1
    /\ events[1].action = "edit"
    /\ events[1].filename = realpath(_last_selection_region.file)
    /\ events[1].selections = << [start |-> 0, end |-> 0] >>

\* The payload C20 expects of a request dispatched for `view`: its file,
\* its whole text and the end of its selection range, as they are when the
\* notification is handled.
CapturedPayload(view) ==
    [ filename |-> realpath(view.file_name),
      editor |-> "sublime3",
      text |-> [len |-> view.size],
      cursor_runes |-> IF view.sel[1].a <= view.sel[1].b
                       THEN view.sel[1].b ELSE view.sel[1].a ]

\* C20 (the request payload is fixed at dispatch): in no state can an edit
\* notification dispatch a completions or signatures task with another
\* payload than the text and cursor offset the document has at that
\* moment; the payload of a task never changes afterwards; and the request
\* a task sends, once, carries exactly that payload, however the document
\* has changed by the time the task runs.
C20_PayloadFixedAtDispatch ==
    /\ [](\A view \in TypingViews :
            ~ENABLED ( /\ on_modified(view)
                       /\ \E k \in (Len(tasks) + 1) .. Len(tasks') :
                             tasks'[k].data # CapturedPayload(view) ))
    /\ [](\A i \in DOMAIN tasks :
            IF tasks[i].pc = "queued"
            THEN tasks[i].sent = NoPayload /\ tasks[i].posts = 0
            ELSE tasks[i].sent = tasks[i].data /\ tasks[i].posts = 1)
    /\ [][\A i \in DOMAIN tasks :
             /\ i \in DOMAIN tasks'
             /\ tasks'[i].data = tasks[i].data
             /\ tasks[i].sent # NoPayload => tasks'[i].sent = tasks[i].sent
         ]_vars

\* C20 witness: a task has sent the text of at most 1 MiB and the cursor
\* offset 1 of its dispatch, while the pending event of a later
\* notification says that the same document is now larger than 1 MiB with
\* the caret at 0.
C20_Witness ==
    /\ Len(tasks) = 1
    /\ tasks[1].pc = "posting"
    /\ tasks[1].sent.cursor_runes = 1
    /\ tasks[1].sent.text = [len |-> MaxViewSize]
    /\ Len(events) = 1
    /\ events[1].filename = tasks[1].sent.filename
    /\ events[1].action = "skip"
    /\ events[1].selections = << [start |-> 0, end |-> 0] >>

=============================================================================
